---- MODULE Spec2Model ----
(***************************************************************************)
(* The concurrent pipeline of main.go: a dispatcher (initializePipeline),  *)
(* the data monitor (InitDataMonitor), workerCount workers (InitWorker)    *)
(* and the result monitor (InitResultMonitor), communicating over Go       *)
(* channels.  An unbuffered channel is a rendezvous: the send and the      *)
(* receive are one step that moves both goroutines.  The request channel   *)
(* is buffered (capacity workerCount) and carries only `true`, so it is    *)
(* modelled by the number of values it holds.                              *)
(***************************************************************************)
EXTENDS Integers, Sequences, FiniteSets, TLC

\* ------------------------------------------------------------- bounds
MaxRecords == 2
MaxWorkers == 2

\* The requested and the looked-up hours.  The pipeline only compares hours
\* (equal or not in InitWorker, less or not in sort.Slice), so two values
\* give every outcome of a comparison.
Hours == {3, 5}

\* ------------------------------------------------------------- types
\* A Structure is [Date, Hour]: Date stands for the (Date, Lat, Lng) triple
\* that identifies the record; Hour is the requested hour.
\* The zero value of a worker's `data` variable outside an iteration.
NoData == [Date |-> 0, Hour |-> 0]

\* The inputs ReadJSON can return: any array of at most MaxRecords records.
InputOf(hs) == [i \in DOMAIN hs |-> [Date |-> i, Hour |-> hs[i]]]

Inputs == UNION { { InputOf(hs) : hs \in [1..k -> Hours] } : k \in 0..MaxRecords }

\* FindSunsetHour returns (hour, nil) or (-1, err).
LookupOutcomes == { [err |-> TRUE, hour |-> -1] }
                    \cup { [err |-> FALSE, hour |-> h] : h \in Hours }

NotLookedUp == [err |-> TRUE, hour |-> -2]

VARIABLES
    workerCount,    \* parameter of initializePipeline
    input,          \* data read by ReadJSON
    mainPc,         \* "insert" | "close" | "wait" | "done"
    mainIdx,        \* index of the next record the dispatcher sends
    computedData,   \* the final collection received by initializePipeline
    closeAgain,     \* a second send on noMoreDataChannel: "idle" | "sending" | "done"
    dmPc,           \* "select" | "respond" | "pop" | "returned"
    data,           \* InitDataMonitor: data
    noMoreData,     \* InitDataMonitor: noMoreData
    requests,       \* number of values held by dataMonitorRequestDataChannel
    responseClosed, \* dataMonitorResponseChannel has been closed
    rmPc,           \* "select" | "publish" | "returned"
    rmData,         \* InitResultMonitor: data
    rmCount,        \* InitResultMonitor: workerCount (counted down)
    wPc,            \* per worker: "request"|"receive"|"lookup"|"submit"|"status"|"exit"
    wData,          \* per worker: data
    wSunset,        \* per worker: sunsetHour
    \* history (not read by any guard)
    delivered,      \* the records received by workers, in the order of delivery
    arrivals,       \* ComputedStructures in the order the result monitor received them
    lookup,         \* Date -> outcome of the lookup made for that record
    statusSent,     \* per worker: number of completion signals sent
    published,      \* number of times the final collection was sent
    dropped         \* some request was received by the data monitor with an empty queue

vars == << workerCount, closeAgain, input, mainPc, mainIdx, computedData, dmPc, data,
           noMoreData, requests, responseClosed, rmPc, rmData, rmCount,
           wPc, wData, wSunset, delivered, arrivals, lookup, statusSent,
           published, dropped >>

mainVars == << mainPc, mainIdx, computedData >>
dmVars == << dmPc, data, noMoreData >>
rmVars == << rmPc, rmData, rmCount >>
wVars == << wPc, wData, wSunset >>
histVars == << delivered, arrivals, lookup, statusSent, published, dropped >>

Workers == 1..workerCount

\* mutant of LoopCond: the loop test off by one
LoopCondOffByOne(c) == c > 1

\* mutant of RequestCapacity: the buffer is one slot short
RequestCapacityOneLess == workerCount - 1

\* `make(chan bool, workerCount)`: the capacity of the request channel
RequestCapacity == workerCount

\* `for workerCount > 0` of InitResultMonitor
LoopCond(c) == c > 0

\* The state once initializePipeline has made the channels, read the input
\* and started the goroutines, for the workerCount it was called with
Setup ==
    /\ input \in Inputs
    /\ mainIdx = 1
    /\ mainPc = IF Len(input) = 0 THEN "close" ELSE "insert"
    /\ computedData = << >>
    /\ closeAgain = "idle"
    /\ dmPc = "select"
    /\ data = << >>
    /\ noMoreData = FALSE
    /\ requests = 0
    /\ responseClosed = FALSE
    /\ rmPc = IF LoopCond(workerCount) THEN "select" ELSE "publish"
    /\ rmData = << >>
    /\ rmCount = workerCount
    /\ wPc = [w \in Workers |-> "request"]
    /\ wData = [w \in Workers |-> NoData]
    /\ wSunset = [w \in Workers |-> 0]
    /\ delivered = << >>
    /\ arrivals = << >>
    /\ lookup = [i \in 1..Len(input) |-> NotLookedUp]
    /\ statusSent = [w \in Workers |-> 0]
    /\ published = 0
    /\ dropped = FALSE

\* main calls initializePipeline with workerCount 10: a positive count
Init == workerCount \in 1..MaxWorkers /\ Setup

\* initializePipeline called with any workerCount >= 0
InitAnyCount == workerCount \in 0..MaxWorkers /\ Setup


\* ------------------------------------------------------------- helpers
\* mutants of DropHead: the head is sent but not removed; the last element
\* is removed instead of the head
KeepHead(d) == d

DropLast(d) == SubSeq(d, 1, Len(d) - 1)

\* data[1:] of InitDataMonitor
DropHead(d) == Tail(d)

\* mutants of CloseCond: one conjunct of the test is missing
CloseCondNoLen(noMore, d) == noMore

CloseCondNoFlag(noMore, d) == Len(d) = 0

\* `noMoreData && len(data) == 0` of InitDataMonitor's default case
CloseCond(noMore, d) == noMore /\ Len(d) = 0

\* mutant of Matches: the filter lets every successful lookup through
MatchesAny(sunsetHour, d) == TRUE

\* the filter of InitWorker: `if sunsetHour != data.Hour { continue }`
Matches(sunsetHour, d) == sunsetHour = d.Hour

\* the ComputedStructure literal of InitWorker
Computed(d, sunsetHour) ==
    [Date |-> d.Date, Hour |-> d.Hour, SunsetHour |-> sunsetHour]

\* the less function handed to sort.Slice
Less(a, b) == a.Hour < b.Hour

IsSorted(s) == \A i \in 1..(Len(s) - 1) : ~Less(s[i + 1], s[i])

Perms(n) == { p \in [1..n -> 1..n] : \A i, j \in 1..n : i # j => p[i] # p[j] }

\* sort.Slice: the slice reordered so that it is sorted by Less.  sort.Slice
\* is documented as not stable, so elements that compare equal may end up
\* in any order: every sorted permutation is a possible result.
SortSlice(s) ==
    { t \in { [i \in 1..Len(s) |-> s[p[i]]] : p \in Perms(Len(s)) } : IsSorted(t) }

\* mutant of AppendAndSort: the sort is missing
AppendUnsorted(d, resultData) == { Append(d, resultData) }

\* `append` followed by sort.Slice in InitResultMonitor
AppendAndSort(d, resultData) == SortSlice(Append(d, resultData))

\* mutant of Decrement: the counter goes down by two
DecrementByTwo(c) == c - 2

\* `workerCount--` of InitResultMonitor
Decrement(c) == c - 1

\* ------------------------------------------------------------- dispatcher / data monitor
\* mutant of SendData: the record is put at the head of the queue
SendDataAtHead ==
    /\ mainPc = "insert"
    /\ dmPc = "select"
    /\ data' = << input[mainIdx] >> \o data
    /\ mainIdx' = mainIdx + 1
    /\ mainPc' = IF mainIdx + 1 > Len(input) THEN "close" ELSE "insert"
    /\ UNCHANGED << workerCount, closeAgain, input, computedData, dmPc, noMoreData, requests,
                    responseClosed, rmVars, wVars, histVars >>

\* `dataMonitorSendDataChannel <- value` meets `case insertObject := <-sendDataChannel`
SendData ==
    /\ mainPc = "insert"
    /\ dmPc = "select"
    /\ data' = Append(data, input[mainIdx])
    /\ mainIdx' = mainIdx + 1
    /\ mainPc' = IF mainIdx + 1 > Len(input) THEN "close" ELSE "insert"
    /\ UNCHANGED << workerCount, closeAgain, input, computedData, dmPc, noMoreData, requests,
                    responseClosed, rmVars, wVars, histVars >>

\* `noMoreDataChannel <- true` meets `case <-noMoreDataChannel`
NoMoreData ==
    /\ mainPc = "close"
    /\ dmPc = "select"
    /\ noMoreData' = TRUE
    /\ mainPc' = "wait"
    /\ UNCHANGED << workerCount, closeAgain, input, mainIdx, computedData, dmPc, data, requests,
                    responseClosed, rmVars, wVars, histVars >>

\* mutant of TakeRequest: the monitor hands out the head record without
\* having received a request
TakeRequestUnasked ==
    /\ dmPc = "select"
    /\ Len(data) > 0
    /\ dmPc' = "respond"
    /\ UNCHANGED << workerCount, closeAgain, input, mainVars, data, noMoreData,
                    requests, responseClosed, rmVars, wVars, histVars >>

\* `case <-requestDataChannel`: with data the monitor goes on to send data[0];
\* with an empty queue the request is consumed and nothing is sent.
TakeRequest ==
    /\ dmPc = "select"
    /\ requests > 0
    /\ requests' = requests - 1
    /\ IF Len(data) > 0
          THEN dmPc' = "respond" /\ dropped' = dropped
          ELSE dmPc' = "select" /\ dropped' = TRUE
    /\ UNCHANGED << workerCount, closeAgain, input, mainVars, data, noMoreData, responseClosed,
                    rmVars, wVars, delivered, arrivals, lookup, statusSent, published >>

\* `responseDataChannel <- data[0]` meets `data, more := <-responseDataChannel`
Respond(w) ==
    /\ w \in Workers
    /\ dmPc = "respond"
    /\ wPc[w] = "receive"
    /\ wData' = [wData EXCEPT ![w] = data[1]]
    /\ wPc' = [wPc EXCEPT ![w] = "lookup"]
    /\ dmPc' = "pop"
    /\ delivered' = Append(delivered, data[1])
    /\ UNCHANGED << workerCount, closeAgain, input, mainVars, data, noMoreData, requests,
                    responseClosed, rmVars, wSunset, arrivals, lookup, statusSent,
                    published, dropped >>

\* `data = data[1:]`
Pop ==
    /\ dmPc = "pop"
    /\ data' = DropHead(data)
    /\ dmPc' = "select"
    /\ UNCHANGED << workerCount, closeAgain, input, mainVars, noMoreData, requests,
                    responseClosed, rmVars, wVars, histVars >>

\* mutant of CloseResponse: the monitor returns without closing the channel
ReturnWithoutClose ==
    /\ dmPc = "select"
    /\ requests = 0
    /\ closeAgain # "sending"
    /\ noMoreData /\ Len(data) = 0
    /\ dmPc' = "returned"
    /\ UNCHANGED << workerCount, closeAgain, input, mainVars, data, noMoreData, requests,
                    responseClosed, rmVars, wVars, histVars >>

\* the default case of the select: taken only when no other case is ready,
\* that is when the request channel is empty and the dispatcher is not
\* parked on a send (it may be anywhere between two sends, so its position
\* does not constrain the case) and no second noMoreData send is parked.  When CloseCond is false the case changes
\* nothing (a stuttering step).
CloseResponse ==
    /\ dmPc = "select"
    /\ requests = 0
    /\ closeAgain # "sending"
    /\ CloseCond(noMoreData, data)
    /\ responseClosed' = TRUE
    /\ dmPc' = "returned"
    /\ UNCHANGED << workerCount, closeAgain, input, mainVars, data, noMoreData, requests,
                    rmVars, wVars, histVars >>

\* ------------------------------------------------------------- worker
\* `requestDataChannel <- true` (buffered, capacity workerCount)
Request(w) ==
    /\ w \in Workers
    /\ wPc[w] = "request"
    /\ requests < RequestCapacity
    /\ requests' = requests + 1
    /\ wPc' = [wPc EXCEPT ![w] = "receive"]
    /\ UNCHANGED << workerCount, closeAgain, input, mainVars, dmVars, responseClosed, rmVars,
                    wData, wSunset, histVars >>

\* `data, more := <-responseDataChannel` on the closed channel: `!more`, break
ReceiveClosed(w) ==
    /\ w \in Workers
    /\ wPc[w] = "receive"
    /\ responseClosed
    /\ wPc' = [wPc EXCEPT ![w] = "status"]
    /\ UNCHANGED << workerCount, closeAgain, input, mainVars, dmVars, requests, responseClosed,
                    rmVars, wData, wSunset, histVars >>

\* mutant of FindSunsetHour: a failed lookup leaves the loop (break for continue)
FindSunsetHourBreakOnError(w) ==
    /\ w \in Workers
    /\ wPc[w] = "lookup"
    /\ \E o \in LookupOutcomes :
          /\ lookup' = [lookup EXCEPT ![wData[w].Date] = o]
          /\ IF ~o.err /\ Matches(o.hour, wData[w])
                THEN /\ wPc' = [wPc EXCEPT ![w] = "submit"]
                     /\ wSunset' = [wSunset EXCEPT ![w] = o.hour]
                     /\ wData' = wData
                ELSE /\ wPc' = [wPc EXCEPT ![w] = IF o.err THEN "status" ELSE "request"]
                     /\ wSunset' = wSunset
                     /\ wData' = [wData EXCEPT ![w] = NoData]
    /\ UNCHANGED << workerCount, closeAgain, input, mainVars, dmVars, requests, responseClosed,
                    rmVars, delivered, arrivals, statusSent, published, dropped >>

\* FindSunsetHour and the two `continue` branches
FindSunsetHour(w) ==
    /\ w \in Workers
    /\ wPc[w] = "lookup"
    /\ \E o \in LookupOutcomes :
          /\ lookup' = [lookup EXCEPT ![wData[w].Date] = o]
          /\ IF ~o.err /\ Matches(o.hour, wData[w])
                THEN /\ wPc' = [wPc EXCEPT ![w] = "submit"]
                     /\ wSunset' = [wSunset EXCEPT ![w] = o.hour]
                     /\ wData' = wData
                ELSE /\ wPc' = [wPc EXCEPT ![w] = "request"]
                     /\ wSunset' = wSunset
                     /\ wData' = [wData EXCEPT ![w] = NoData]
    /\ UNCHANGED << workerCount, closeAgain, input, mainVars, dmVars, requests, responseClosed,
                    rmVars, delivered, arrivals, statusSent, published, dropped >>

\* `resultMonitorSendDataChannel <- ComputedStructure{...}` meets
\* `case resultData := <-resultMonitorSendDataChannel` (append, sort.Slice)
Submit(w) ==
    /\ w \in Workers
    /\ wPc[w] = "submit"
    /\ rmPc = "select"
    /\ rmData' \in AppendAndSort(rmData, Computed(wData[w], wSunset[w]))
    /\ arrivals' = Append(arrivals, Computed(wData[w], wSunset[w]))
    /\ wPc' = [wPc EXCEPT ![w] = "request"]
    /\ wData' = [wData EXCEPT ![w] = NoData]
    /\ wSunset' = [wSunset EXCEPT ![w] = 0]
    /\ UNCHANGED << workerCount, closeAgain, input, mainVars, dmVars, requests, responseClosed,
                    rmPc, rmCount, delivered, lookup, statusSent, published, dropped >>

\* `workerStatusChannel <- true` meets `case <-workerStatusChannel` (workerCount--)
\* followed by the loop test `workerCount > 0`
Status(w) ==
    /\ w \in Workers
    /\ wPc[w] = "status"
    /\ rmPc = "select"
    /\ rmCount' = Decrement(rmCount)
    /\ rmPc' = IF LoopCond(Decrement(rmCount)) THEN "select" ELSE "publish"
    /\ wPc' = [wPc EXCEPT ![w] = "exit"]
    /\ statusSent' = [statusSent EXCEPT ![w] = @ + 1]
    /\ UNCHANGED << workerCount, closeAgain, input, mainVars, dmVars, requests, responseClosed,
                    rmData, wData, wSunset, delivered, arrivals, lookup, published,
                    dropped >>

\* ------------------------------------------------------------- result monitor / dispatcher
\* `resultMonitorSendFinalDataChannel <- data` meets
\* `computedData := <-resultMonitorSendFinalDataChannel`
SendFinal ==
    /\ rmPc = "publish"
    /\ mainPc = "wait"
    /\ computedData' = rmData
    /\ mainPc' = "done"
    /\ rmPc' = "returned"
    /\ published' = published + 1
    /\ UNCHANGED << workerCount, closeAgain, input, mainIdx, dmVars, requests, responseClosed,
                    rmData, rmCount, wVars, delivered, arrivals, lookup, statusSent,
                    dropped >>

\* ------------------------------------------------------------- closeInput called twice
\* A caller starts a second `noMoreDataChannel <- true` at any moment after
\* the first one was received, and parks on the unbuffered channel.
CallCloseInputAgain ==
    /\ closeAgain = "idle"
    /\ noMoreData
    /\ closeAgain' = "sending"
    /\ UNCHANGED << workerCount, input, mainVars, dmVars, requests, responseClosed,
                    rmVars, wVars, histVars >>

\* the parked second send meets `case <-noMoreDataChannel` (noMoreData = true)
NoMoreDataAgain ==
    /\ closeAgain = "sending"
    /\ dmPc = "select"
    /\ noMoreData' = TRUE
    /\ closeAgain' = "done"
    /\ UNCHANGED << workerCount, input, mainVars, dmPc, data, requests,
                    responseClosed, rmVars, wVars, histVars >>

Next ==
    \/ SendData
    \/ NoMoreData
    \/ TakeRequest
    \/ Pop
    \/ CloseResponse
    \/ SendFinal
    \/ \E w \in 1..MaxWorkers : Respond(w)
    \/ \E w \in 1..MaxWorkers : Request(w)
    \/ \E w \in 1..MaxWorkers : ReceiveClosed(w)
    \/ \E w \in 1..MaxWorkers : FindSunsetHour(w)
    \/ \E w \in 1..MaxWorkers : Submit(w)
    \/ \E w \in 1..MaxWorkers : Status(w)

Spec == Init /\ [][Next]_vars

\* Go schedules every runnable goroutine eventually, and a channel operation
\* that stays possible is eventually performed.
Fairness ==
    /\ WF_vars(SendData)
    /\ WF_vars(NoMoreData)
    /\ WF_vars(TakeRequest)
    /\ WF_vars(Pop)
    /\ WF_vars(CloseResponse)
    /\ WF_vars(SendFinal)
    /\ \A w \in 1..MaxWorkers :
          /\ WF_vars(Respond(w))
          /\ WF_vars(Request(w))
          /\ WF_vars(ReceiveClosed(w))
          /\ WF_vars(FindSunsetHour(w))
          /\ WF_vars(Submit(w))
          /\ WF_vars(Status(w))

FairSpec == Spec /\ Fairness

\* the pipeline with a caller that sends on noMoreDataChannel a second time
NextCloseTwice == Next \/ CallCloseInputAgain \/ NoMoreDataAgain

CloseTwiceSpec ==
    Init /\ [][NextCloseTwice]_vars /\ Fairness /\ WF_vars(NoMoreDataAgain)

\* initializePipeline called with any worker count, zero included
AnyCountSpec == InitAnyCount /\ [][Next]_vars

\* ------------------------------------------------------------- properties
\* C1: under fair scheduling, with every lookup returning, the pipeline
\* terminates: initializePipeline eventually receives the final collection.
\* Every step of the pipeline makes progress (no step can be repeated for
\* ever), so the pipeline terminates under fair scheduling exactly when it
\* can never reach a state, other than the final one, in which no goroutine
\* can take a step.
C1_Terminates == mainPc = "done" \/ ENABLED Next

\* C2: no record is delivered twice: every record is received from the
\* response channel at most once, by at most one worker, and the number of
\* records received never exceeds the number enqueued.
C2_NoDoubleDelivery ==
    /\ \A i, j \in 1..Len(delivered) :
          delivered[i].Date = delivered[j].Date => i = j
    /\ \A v, w \in Workers :
          (wData[v] # NoData /\ wData[v].Date = wData[w].Date) => v = w
    /\ Len(delivered) <= mainIdx - 1

C2_Witness ==
    /\ Len(delivered) = 2
    /\ \E v, w \in Workers :
          /\ v # w
          /\ wData[v] = delivered[1]
          /\ wData[w] = delivered[2]

\* the indices of the input records whose lookup succeeded with the
\* requested hour
MatchSet ==
    { i \in 1..Len(input) : ~lookup[i].err /\ lookup[i].hour = input[i].Hour }

\* C3: no record is lost: once the final collection has been published the
\* queue is empty and every enqueued record has been delivered to a worker
\* that finished processing it (lookup made and, on a match, submission
\* accepted by the result monitor).
C3_NoRecordLost ==
    mainPc = "done" =>
        /\ data = << >>
        /\ mainIdx = Len(input) + 1
        /\ \A i \in 1..Len(input) :
              /\ \E j \in 1..Len(delivered) : delivered[j] = input[i]
              /\ lookup[i] \in LookupOutcomes
              /\ i \in MatchSet =>
                    \E k \in 1..Len(arrivals) : arrivals[k].Date = input[i].Date
        /\ \A w \in Workers : wPc[w] = "exit"

C3_Witness ==
    /\ mainPc = "done"
    /\ Len(input) = 2
    /\ Len(delivered) = 2
    /\ MatchSet # {}

\* C4: no premature end-of-stream: the response channel is closed, and a
\* worker has observed hasMore=false, only when the data monitor has received
\* the closeInput signal and the queue is empty.
C4_NoPrematureEnd ==
    (responseClosed \/ \E w \in Workers : wPc[w] \in {"status", "exit"}) =>
        /\ responseClosed
        /\ noMoreData
        /\ Len(data) = 0
        /\ mainPc \in {"wait", "done"}

C4_Witness ==
    /\ responseClosed
    /\ Len(delivered) > 0
    /\ \E w \in Workers : wPc[w] = "status"

\* C5: publication is gated on full completion: the final collection is sent
\* at most once and only when all workers have sent their completion signal
\* (counter 0); each worker signals at most once, after leaving its loop, so
\* the counter equals workerCount minus the number of signals and is never
\* negative.
C5_PublicationGated ==
    /\ published <= 1
    /\ rmCount >= 0
    /\ rmCount = workerCount - Cardinality({ w \in Workers : statusSent[w] = 1 })
    /\ \A w \in Workers :
          /\ statusSent[w] <= 1
          /\ statusSent[w] = 1 <=> wPc[w] = "exit"
    /\ (published = 1 \/ rmPc # "select") =>
          /\ rmCount = 0
          /\ \A w \in Workers : statusSent[w] = 1
    /\ published = 1 <=> mainPc = "done"

C5_Witness ==
    /\ published = 1
    /\ workerCount = 2
    /\ rmCount = 0

\* C6: end-of-stream is broadcast and permanent: once closeInput has been
\* received and the queue is empty, every worker (blocked in requestNext or
\* calling it later) eventually gets hasMore=false, and no record is ever
\* received again.
C6_EndOfStreamBroadcast ==
    /\ (noMoreData /\ Len(data) = 0) ~> (\A w \in Workers : wPc[w] \in {"status", "exit"})
    /\ [][(noMoreData /\ Len(data) = 0) => delivered' = delivered]_vars

C6_Witness ==
    /\ responseClosed
    /\ workerCount = 2
    /\ dropped
    /\ Len(delivered) > 0
    /\ \A w \in Workers : wPc[w] = "exit"

\* C7: a worker suspended in requestNext is released by data: whenever the
\* queue holds a record (not yet handed out) and a worker is blocked waiting
\* for a response, a further record is eventually delivered to a worker.
C7_ReleasedByData ==
    \A n \in 0..MaxRecords :
        (/\ Len(data) > 0
         /\ dmPc # "pop"
         /\ \E w \in Workers : wPc[w] = "receive"
         /\ Len(delivered) = n)
        ~> (Len(delivered) > n)

\* C8: the published collection is exactly the matches: it contains, each
\* exactly once, the input records whose lookup succeeded with the requested
\* hour, and nothing else.
C8_ExactlyTheMatches ==
    mainPc = "done" =>
        /\ Len(computedData) = Cardinality(MatchSet)
        /\ Len(computedData) <= Len(input)
        /\ \A i \in MatchSet :
              \E j \in 1..Len(computedData) :
                  computedData[j] = [Date |-> input[i].Date, Hour |-> input[i].Hour,
                                     SunsetHour |-> lookup[i].hour]
        /\ \A j \in 1..Len(computedData) :
              /\ computedData[j].SunsetHour = computedData[j].Hour
              /\ \E i \in MatchSet : computedData[j].Date = input[i].Date

C8_Witness ==
    /\ mainPc = "done"
    /\ Len(input) = 2
    /\ Cardinality(MatchSet) = 1
    /\ \E i \in 1..Len(input) : ~lookup[i].err /\ lookup[i].hour # input[i].Hour

Ascending(s) == \A i, j \in 1..Len(s) : i < j => s[i].Hour <= s[j].Hour

\* C9: the result monitor's collection is in ascending hour order after every
\* submit, and so is the published collection, whatever the arrival order.
C9_SortedByHour == Ascending(rmData) /\ Ascending(computedData)

C9_Witness ==
    /\ mainPc = "done"
    /\ Len(arrivals) = 2
    /\ arrivals[1].Hour > arrivals[2].Hour
    /\ computedData = << arrivals[2], arrivals[1] >>

\* position of the record with the given Date in the arrival sequence
ArrivalIndex(c) == CHOOSE k \in 1..Len(arrivals) : arrivals[k].Date = c.Date

StableOnTies(s) ==
    \A i, j \in 1..Len(s) :
        (i < j /\ s[i].Hour = s[j].Hour) => ArrivalIndex(s[i]) < ArrivalIndex(s[j])

\* C10: submit is stable on ties: two ComputedStructures with equal Hour are
\* held, and published, in the order in which they arrived.
C10_StableOnTies == StableOnTies(rmData) /\ StableOnTies(computedData)

\* the indices of the input records whose lookup failed
FailedSet == { i \in 1..Len(input) : lookup[i] = [err |-> TRUE, hour |-> -1] }

\* a worker's lookup has just returned an error
LookupFails(w) ==
    /\ wPc[w] = "lookup"
    /\ wPc'[w] # "lookup"
    /\ lookup'[wData[w].Date].err

\* C11: lookup failure is contained in the worker: on a failed lookup the
\* worker submits nothing, stays in its loop without signalling completion
\* and goes on to request the next record; a failed record is never held or
\* published, and the published entries are exactly the matches among the
\* other records.
C11_FailureContained ==
    /\ [][\A w \in Workers :
             LookupFails(w) =>
                 /\ wPc'[w] = "request"
                 /\ arrivals' = arrivals
                 /\ rmData' = rmData
                 /\ statusSent' = statusSent
                 /\ rmCount' = rmCount]_vars
    /\ [](\A i \in FailedSet :
             /\ \A k \in 1..Len(arrivals) : arrivals[k].Date # input[i].Date
             /\ \A k \in 1..Len(rmData) : rmData[k].Date # input[i].Date
             /\ \A k \in 1..Len(computedData) : computedData[k].Date # input[i].Date)
    /\ [](mainPc = "done" =>
             { computedData[k] : k \in 1..Len(computedData) } =
             { [Date |-> input[i].Date, Hour |-> input[i].Hour,
                SunsetHour |-> input[i].Hour] :
                  i \in { j \in (1..Len(input)) \ FailedSet :
                             lookup[j].hour = input[j].Hour } })

C11_Witness ==
    /\ mainPc = "done"
    /\ Len(input) = 2
    /\ 1 \in FailedSet
    /\ Len(computedData) = 1
    /\ computedData[1].Date = 2

\* C12: a zero-worker configuration is rejected at setup: started with
\* workerCount = 0 the pipeline enqueues no record and never publishes a
\* final collection.
C12_ZeroWorkersRejected ==
    workerCount = 0 =>
        /\ mainIdx = 1
        /\ data = << >>
        /\ published = 0
        /\ mainPc # "done"

\* C13: enqueue always succeeds while input is open: every send of a record
\* by the dispatcher is eventually accepted and the record appended at the
\* tail of the queue, and the closeInput signal that follows is eventually
\* accepted too, so the dispatcher reaches the wait for the final collection.
C13_EnqueueSucceeds ==
    /\ <>(mainIdx = Len(input) + 1 /\ noMoreData /\ mainPc \in {"wait", "done"})
    /\ [][mainIdx' # mainIdx =>
             /\ mainIdx' = mainIdx + 1
             /\ data' = Append(data, input[mainIdx])]_vars

C13_Witness ==
    /\ mainPc = "wait"
    /\ Len(input) = 2
    /\ dropped
    /\ Len(delivered) = 1
    /\ Len(data) = 1

\* C14: closeInput is idempotent: a second call, in any state after the
\* first, completes without blocking and leaves the queue, the closed flag
\* and the state of the response channel as they were.
C14_CloseInputIdempotent ==
    /\ (closeAgain = "sending") ~> (closeAgain = "done")
    /\ [][(closeAgain = "sending" /\ closeAgain' = "done") =>
             /\ data' = data
             /\ noMoreData' = noMoreData
             /\ responseClosed' = responseClosed]_vars

\* C15: the queue is FIFO: the records handed out are always a prefix of the
\* input, in input order, and the queue holds exactly the enqueued records
\* not yet handed out, so serving a request removes only the head.
C15_Fifo ==
    /\ Len(delivered) <= Len(input)
    /\ delivered = SubSeq(input, 1, Len(delivered))
    /\ delivered \o (IF dmPc = "pop" THEN Tail(data) ELSE data)
          = SubSeq(input, 1, mainIdx - 1)

C15_Witness ==
    /\ dmPc = "select"
    /\ Len(input) = 2
    /\ delivered = << input[1] >>
    /\ data = << input[2] >>
    /\ \E w \in Workers : wData[w] = input[1]

\* C16: no submission is lost or late: every ComputedStructure received by
\* the result monitor is held, and is in the published collection; once the
\* result monitor has left its loop no worker is left sending a submission or
\* a completion signal (every worker has exited).
C16_NoSubmissionLost ==
    /\ rmPc # "select" => \A w \in Workers : wPc[w] = "exit"
    /\ Len(rmData) = Len(arrivals)
    /\ \A k \in 1..Len(arrivals) : \E j \in 1..Len(rmData) : rmData[j] = arrivals[k]
    /\ mainPc = "done" =>
          /\ Len(computedData) = Len(arrivals)
          /\ \A k \in 1..Len(arrivals) :
                \E j \in 1..Len(computedData) : computedData[j] = arrivals[k]

C16_Witness ==
    /\ rmPc = "returned"
    /\ workerCount = 2
    /\ Len(arrivals) = 2
    /\ Len(computedData) = 2

\* C17: the request channel never overflows: it never holds more than
\* workerCount requests, and a worker about to send a request can always
\* send it at once, also after the data monitor has returned.
C17_RequestsFit ==
    /\ requests <= workerCount
    /\ \A w \in Workers : wPc[w] = "request" => ENABLED Request(w)

C17_Witness ==
    /\ dmPc = "returned"
    /\ workerCount = 2
    /\ requests = workerCount

\* C18: the data monitor never blocks for ever while handing out a record:
\* whenever it is sending the head record some worker is waiting on the
\* response channel, and the monitor eventually gets back to its select.
C18_ResponseReceived ==
    /\ [][dmPc' = "respond" => \E w \in Workers : wPc'[w] = "receive"]_vars
    /\ (dmPc = "respond") ~> (dmPc = "select")

C18_Witness ==
    /\ dmPc = "select"
    /\ workerCount = 2
    /\ dropped
    /\ Len(delivered) = 2

\* C19: the result monitor's two operations do not interfere: receiving a
\* submission adds one element to the held collection and leaves the
\* live-worker counter unchanged; receiving a completion signal decrements
\* the counter by exactly 1 and leaves the held collection unchanged.
C19_NoInterference ==
    [][/\ arrivals' # arrivals =>
             /\ rmCount' = rmCount
             /\ rmPc' = rmPc
             /\ Len(rmData') = Len(rmData) + 1
       /\ statusSent' # statusSent =>
             /\ rmCount' = rmCount - 1
             /\ rmData' = rmData
             /\ arrivals' = arrivals]_vars

C19_Witness ==
    /\ workerCount = 2
    /\ rmCount = 0
    /\ Len(rmData) = 2

====
